---- MODULE Spec2Model ----
(***************************************************************************)
(* Model of the detection and state-control pipeline:                      *)
(*   modules/state_machine.py  StateMachine                                *)
(*   modules/detection.py      BattleDetector                              *)
(*   modules/screen.py         ScreenCapture (capture of a named region)   *)
(* Every method is one action; its return value (or the exception that     *)
(* left it) is recorded in last_op / poll_log so that properties can speak *)
(* about what the caller observed.                                         *)
(***************************************************************************)
EXTENDS Integers, Sequences, FiniteSets, TLC

VARIABLES
    current_state,          \* StateMachine.current_state
    previous_state,         \* StateMachine.previous_state (None at start)
    state_history,          \* StateMachine.state_history (list of dicts)
    transition_callbacks,   \* StateMachine.transition_callbacks (dict key -> callable)
    valid_transitions,      \* StateMachine.valid_transitions (dict state -> list)
    last_op,                \* the last StateMachine call and what it returned
    cb_calls,               \* callbacks invoked by the last call, with what each one saw
    reg_log,                \* register_callback calls so far, in order
    regions,                \* ScreenCapture.regions (names configured in config.json)
    battle_detected_frames, \* BattleDetector.battle_detected_frames
    indicator_img,          \* the image the last is_in_battle call worked on (NoFrame: none)
    poll_log,               \* is_in_battle calls so far: capture outcome, is_battle, return
    ocr_text,               \* PokemonIdentifier: the raw text handed to _clean_pokemon_name
    pokemon_name,           \* PokemonIdentifier: what _clean_pokemon_name returned for it
    name_cleaned,           \* _clean_pokemon_name has returned for ocr_text
    hash_threshold,         \* SpriteComparator.hash_threshold
    use_ssim_confirmation,  \* config.get('use_ssim_confirmation', False)
    hash_cache,             \* SpriteComparator._hash_cache: path -> hash
    last_cmp,               \* the last is_pokemon_skinned call: what it did and returned
    phash_calls,            \* path -> completed imagehash.phash computations of its image
    cmp_calls,              \* is_pokemon_skinned calls so far
    pc,                     \* PokemonFarmBot: where the control thread is
    elapsed,                \* _wait_battle_end: elapsed, in half seconds
    wait_reason,            \* the reason _handle_battle_state gives transition_to after the wait
    statistics,             \* BotStatistics: encounters, skins_found, fled_battles, errors
    flee_calls,             \* flee_battle calls of the current pass of _handle_battle_state
    viz_enabled,            \* BoundingBoxVisualizer.enabled
    viz_running,            \* BoundingBoxVisualizer.running
    viz_thread,             \* BoundingBoxVisualizer.thread: not created, alive, or exited
    viz_loops,              \* where each _visualization_loop thread started by start() is
    current_frame,          \* BoundingBoxVisualizer.current_frame
    snapshots               \* identifiers of the debug/skin_*.png files written

smVars == <<current_state, previous_state, state_history, transition_callbacks,
            valid_transitions, last_op, cb_calls, reg_log>>
detVars == <<regions, battle_detected_frames, indicator_img, poll_log>>
textVars == <<ocr_text, pokemon_name, name_cleaned>>
cmpVars == <<hash_threshold, use_ssim_confirmation, hash_cache, last_cmp,
             phash_calls, cmp_calls>>
vars == <<current_state, previous_state, state_history, transition_callbacks,
          valid_transitions, last_op, cb_calls, reg_log,
          regions, battle_detected_frames, indicator_img, poll_log,
          ocr_text, pokemon_name, name_cleaned,
          hash_threshold, use_ssim_confirmation, hash_cache, last_cmp,
          phash_calls, cmp_calls,
          pc, elapsed, wait_reason, statistics, flee_calls,
          viz_enabled, viz_running, viz_thread, viz_loops, current_frame, snapshots>>
botVars == <<pc, elapsed, wait_reason, statistics, flee_calls>>
vizVars == <<viz_enabled, viz_running, viz_thread, viz_loops, current_frame, snapshots>>
\* what the StateMachine, the BattleDetector, the PokemonIdentifier and the
\* SpriteComparator leave alone
nonSMVars == <<detVars, textVars, cmpVars, botVars, vizVars>>
nonDetVars == <<smVars, textVars, cmpVars, botVars, vizVars>>
nonTextVars == <<smVars, detVars, cmpVars, botVars, vizVars>>
nonCmpVars == <<smVars, detVars, textVars, botVars, vizVars>>

(***************************************************************************)
(* Bounds of the model                                                     *)
(***************************************************************************)
MaxHistory == 3
MaxRegs == 2
MaxPolls == 6
FramePixels == 5
MaxTextLen == 4
HashBits == 6
MaxCmps == 2
MaxEncounters == 2
MaxVizThreads == 3

Range(s) == {s[i] : i \in DOMAIN s}

(***************************************************************************)
(* BotState                                                                *)
(***************************************************************************)
BotState == {"IDLE", "FARMING", "IN_BATTLE", "CAPTURING", "PAUSED", "STOPPED"}

None == "None"

\* BotState.<member>.value
Value(s) ==
    CASE s = "IDLE" -> "idle"
      [] s = "FARMING" -> "farming"
      [] s = "IN_BATTLE" -> "in_battle"
      [] s = "CAPTURING" -> "capturing"
      [] s = "PAUSED" -> "paused"
      [] s = "STOPPED" -> "stopped"

(***************************************************************************)
(* StateMachine                                                            *)
(***************************************************************************)
ValidTransitionsStoppedRestarts ==
    [s \in BotState |->
        CASE s = "IDLE" -> <<"FARMING", "STOPPED">>
          [] s = "FARMING" -> <<"IN_BATTLE", "PAUSED", "STOPPED">>
          [] s = "IN_BATTLE" -> <<"FARMING", "CAPTURING", "PAUSED", "STOPPED">>
          [] s = "CAPTURING" -> <<"FARMING", "PAUSED", "STOPPED">>
          [] s = "PAUSED" -> <<"FARMING", "STOPPED">>
          [] s = "STOPPED" -> <<"IDLE">>]

ValidTransitionsNoPause ==
    [s \in BotState |->
        CASE s = "IDLE" -> <<"FARMING", "STOPPED">>
          [] s = "FARMING" -> <<"IN_BATTLE", "PAUSED", "STOPPED">>
          [] s = "IN_BATTLE" -> <<"FARMING", "CAPTURING", "STOPPED">>
          [] s = "CAPTURING" -> <<"FARMING", "PAUSED", "STOPPED">>
          [] s = "PAUSED" -> <<"FARMING", "STOPPED">>
          [] s = "STOPPED" -> <<>>]

ValidTransitionsNoFlee ==
    [s \in BotState |->
        CASE s = "IDLE" -> <<"FARMING", "STOPPED">>
          [] s = "FARMING" -> <<"IN_BATTLE", "PAUSED", "STOPPED">>
          [] s = "IN_BATTLE" -> <<"CAPTURING", "PAUSED", "STOPPED">>
          [] s = "CAPTURING" -> <<"FARMING", "PAUSED", "STOPPED">>
          [] s = "PAUSED" -> <<"FARMING", "STOPPED">>
          [] s = "STOPPED" -> <<>>]

ValidTransitionsInit ==
    [s \in BotState |->
        CASE s = "IDLE" -> <<"FARMING", "STOPPED">>
          [] s = "FARMING" -> <<"IN_BATTLE", "PAUSED", "STOPPED">>
          [] s = "IN_BATTLE" -> <<"FARMING", "CAPTURING", "PAUSED", "STOPPED">>
          [] s = "CAPTURING" -> <<"FARMING", "PAUSED", "STOPPED">>
          [] s = "PAUSED" -> <<"FARMING", "STOPPED">>
          [] s = "STOPPED" -> <<>>]

\* self.valid_transitions.get(state, [])
TransitionsFrom(state) ==
    IF state \in DOMAIN valid_transitions THEN valid_transitions[state] ELSE <<>>

IsValidTransitionUnchecked(new_state) == TRUE

\* the test of transition_to: new_state in self.valid_transitions.get(self.current_state, [])
IsValidTransition(new_state) == new_state \in Range(TransitionsFrom(current_state))

CanTransitionToFromPrevious(state) == state \in Range(TransitionsFrom(previous_state))

\* the test of can_transition_to: state in self.valid_transitions.get(self.current_state, [])
CanTransitionTo(state) == state \in Range(TransitionsFrom(current_state))

CallbackKeyOfTarget(from_state, to_state) == "to_" \o Value(to_state)

\* f"{from_state.value}_to_{to_state.value}"
CallbackKey(from_state, to_state) == Value(from_state) \o "_to_" \o Value(to_state)

\* the dict appended to state_history
HistoryRecordOfTarget(timestamp, new_state, reason) ==
    [timestamp |-> timestamp, from |-> Value(new_state),
     to |-> Value(new_state), reason |-> reason]

HistoryRecord(timestamp, new_state, reason) ==
    [timestamp |-> timestamp, from |-> Value(current_state),
     to |-> Value(new_state), reason |-> reason]

RegisteredKeepFirst(key, callback) ==
    [k \in DOMAIN transition_callbacks \cup {key} |->
        IF k \in DOMAIN transition_callbacks THEN transition_callbacks[k] ELSE callback]

\* self.transition_callbacks[callback_key] = callback
Registered(key, callback) ==
    [k \in DOMAIN transition_callbacks \cup {key} |->
        IF k = key THEN callback ELSE transition_callbacks[k]]

(***************************************************************************)
(* Inputs of the StateMachine calls                                        *)
(***************************************************************************)
\* callables handed to register_callback; an invocation returns or raises
Callbacks == {"cbA", "cbB"}
\* (from_state, to_state) pairs handed to register_callback: an edge of the
\* graph and a pair that is no edge
RegEdges == {<<"IDLE", "FARMING">>, <<"IDLE", "PAUSED">>}
Reasons == {"Bot iniciado"}
\* datetime.now().strftime("%H:%M:%S")
Timestamps == {"12:00:00"}

\* callback(): a callable handed in by a caller returns or raises; the
\* statistics lambdas PokemonFarmBot registers only add 1 to a field
Raises(callback) == IF callback \in Callbacks THEN BOOLEAN ELSE {FALSE}

Op(op, target, reason, ret) == [op |-> op, target |-> target, reason |-> reason, ret |-> ret]

\* What a callback observes of the state machine while it runs: previous_state
\* has already been set to the state being left and the record is appended,
\* current_state is not yet updated.
SeenAfterUpdate(callback, new_state, hist) ==
    [cb |-> callback, current |-> new_state, previous |-> current_state,
     history |-> hist]

Seen(callback, new_state, hist) ==
    [cb |-> callback, current |-> current_state, previous |-> current_state,
     history |-> hist]

SMInit ==
    /\ current_state = "IDLE"
    /\ previous_state = None
    /\ state_history = <<>>
    /\ transition_callbacks = <<>>
    /\ valid_transitions = ValidTransitionsInit
    /\ last_op = Op("__init__", None, None, "None")
    /\ cb_calls = <<>>
    /\ reg_log = <<>>

\* transition_to(new_state, reason); the third input is the clock reading
transition_to(new_state, reason, timestamp) ==
    LET key == CallbackKey(current_state, new_state)
        hist == Append(state_history, HistoryRecord(timestamp, new_state, reason))
    IN  IF ~IsValidTransition(new_state)
        THEN /\ last_op' = Op("transition_to", new_state, reason, "False")
             /\ cb_calls' = <<>>
             /\ UNCHANGED <<current_state, previous_state, state_history,
                            transition_callbacks, valid_transitions, reg_log>>
        ELSE /\ previous_state' = current_state
             /\ state_history' = hist
             /\ IF key \in DOMAIN transition_callbacks
                THEN /\ cb_calls' = <<Seen(transition_callbacks[key], new_state, hist)>>
                     /\ \E raises \in Raises(transition_callbacks[key]) :
                           IF raises
                           THEN /\ UNCHANGED current_state
                                /\ last_op' = Op("transition_to", new_state, reason, "Raised")
                           ELSE /\ current_state' = new_state
                                /\ last_op' = Op("transition_to", new_state, reason, "True")
                ELSE /\ cb_calls' = <<>>
                     /\ current_state' = new_state
                     /\ last_op' = Op("transition_to", new_state, reason, "True")
             /\ UNCHANGED <<transition_callbacks, valid_transitions, reg_log>>

TransitionTo ==
    /\ \E new_state \in BotState, reason \in Reasons, timestamp \in Timestamps :
          /\ IsValidTransition(new_state) => Len(state_history) < MaxHistory
          /\ transition_to(new_state, reason, timestamp)
    /\ UNCHANGED nonSMVars

\* register_callback(from_state, to_state, callback)
register_callback(from_state, to_state, callback) ==
    LET key == CallbackKey(from_state, to_state)
    IN  /\ Len(reg_log) < MaxRegs
        /\ transition_callbacks' = Registered(key, callback)
        /\ reg_log' = Append(reg_log, [key |-> key, cb |-> callback])
        /\ last_op' = Op("register_callback", to_state, None, "None")
        /\ cb_calls' = <<>>
        /\ UNCHANGED <<current_state, previous_state, state_history, valid_transitions>>

RegisterCallback ==
    /\ \E e \in RegEdges, callback \in Callbacks : register_callback(e[1], e[2], callback)
    /\ UNCHANGED nonSMVars

\* is_state(state)
is_state(state) ==
    /\ last_op' = Op("is_state", state, None, IF current_state = state THEN "True" ELSE "False")
    /\ cb_calls' = <<>>
    /\ UNCHANGED <<current_state, previous_state, state_history, transition_callbacks,
                   valid_transitions, reg_log>>

IsState ==
    /\ \E state \in BotState : is_state(state)
    /\ UNCHANGED nonSMVars

\* can_transition_to(state)
can_transition_to(state) ==
    /\ last_op' = Op("can_transition_to", state, None,
                     IF CanTransitionTo(state) THEN "True" ELSE "False")
    /\ cb_calls' = <<>>
    /\ UNCHANGED <<current_state, previous_state, state_history, transition_callbacks,
                   valid_transitions, reg_log>>

CanTransition ==
    /\ \E state \in BotState : can_transition_to(state)
    /\ UNCHANGED nonSMVars

ResetClearsHistory ==
    /\ current_state' = "IDLE"
    /\ previous_state' = None
    /\ state_history' = <<>>
    /\ last_op' = Op("reset", None, None, "None")
    /\ cb_calls' = <<>>
    /\ UNCHANGED <<transition_callbacks, valid_transitions, reg_log>>
    /\ UNCHANGED nonSMVars

\* reset()
Reset ==
    /\ current_state' = "IDLE"
    /\ previous_state' = None
    /\ last_op' = Op("reset", None, None, "None")
    /\ cb_calls' = <<>>
    /\ UNCHANGED <<state_history, transition_callbacks, valid_transitions, reg_log>>
    /\ UNCHANGED nonSMVars

(***************************************************************************)
(* ScreenCapture: capture of a named region                                *)
(***************************************************************************)
\* A frame as the detector uses it: how many of its pixels are brighter than
\* the binary threshold (gray > 200), out of how many.
Frame(white, total) == [white |-> white, total |-> total]

\* the local indicator_img before it is bound: an image of no pixels
NoFrame == Frame(0, 0)

\* frames ImageGrab.grab can deliver for the indicator region
Frames == {Frame(w, FramePixels) : w \in 0..FramePixels}

\* get_screenshot: Image.new('RGB', (640, 480), color='black') when the grab fails
FallbackFrame == Frame(0, 640 * 480)

\* the sets of region names a config.json can define
RegionConfigs == {{"battle_indicator", "pokemon_name", "pokemon_sprite"},
                  {"pokemon_name", "pokemon_sprite"},
                  {"battle_indicator", "pokemon_name"}}

\* outcomes of ImageGrab.grab: a frame, or an error of the capture device
GrabOutcomes == [ok : {TRUE}, frame : Frames] \cup {[ok |-> FALSE, frame |-> FallbackFrame]}

\* get_screenshot(region_coords): the grabbed image, the black image on error
get_screenshot(grab) == IF grab.ok THEN grab.frame ELSE FallbackFrame

\* get_region_by_name raises KeyError for a name that is not in the config
RegionConfigured(region_name) == region_name \in regions

(***************************************************************************)
(* BattleDetector                                                          *)
(***************************************************************************)
required_consecutive_frames == 3

IsBattleInclusive(frame) == frame.white * 100 >= 20 * frame.total

\* white_percentage = (white_pixels / total_pixels) * 100; is_battle = white_percentage > 20
\* (the quotient is compared exactly: white * 100 > 20 * total)
IsBattle(frame) == frame.white * 100 > 20 * frame.total

NextFramesWrapping(is_battle, frames) ==
    IF is_battle THEN (frames + 1) % (required_consecutive_frames + 1) ELSE 0

\* if is_battle: self.battle_detected_frames += 1  else: self.battle_detected_frames = 0
NextFrames(is_battle, frames) == IF is_battle THEN frames + 1 ELSE 0

ConfirmedOneLate(frames) == frames > required_consecutive_frames

\* confirmed = self.battle_detected_frames >= self.required_consecutive_frames
Confirmed(frames) == frames >= required_consecutive_frames

Poll(capture, is_battle, ret) == [capture |-> capture, is_battle |-> is_battle, ret |-> ret]

DetInit ==
    /\ regions \in RegionConfigs
    /\ battle_detected_frames = 0
    /\ indicator_img = NoFrame
    /\ poll_log = <<>>

\* what is_in_battle() does for one outcome of the grab it asks for: how the
\* capture went, is_battle, and the value returned
PollOf(grab) ==
    IF ~RegionConfigured("battle_indicator")
    THEN \* KeyError, caught by the except of is_in_battle
         Poll("KeyError", FALSE, FALSE)
    ELSE LET is_battle == IsBattle(get_screenshot(grab))
         IN  Poll(IF grab.ok THEN "ok" ELSE "GrabError", is_battle,
                  Confirmed(NextFrames(is_battle, battle_detected_frames)))

\* is_in_battle(), for one outcome of the grab it asks for
is_in_battle(grab) ==
    /\ IF ~RegionConfigured("battle_indicator")
       THEN \* KeyError, caught by the except of is_in_battle
            /\ indicator_img' = NoFrame
            /\ UNCHANGED battle_detected_frames
       ELSE LET frame == get_screenshot(grab)
                is_battle == IsBattle(frame)
                frames == NextFrames(is_battle, battle_detected_frames)
            IN  /\ battle_detected_frames' = frames
                /\ indicator_img' = frame
    /\ UNCHANGED regions

IsInBattle ==
    /\ Len(poll_log) < MaxPolls
    /\ \E grab \in GrabOutcomes :
          /\ is_in_battle(grab)
          /\ poll_log' = Append(poll_log, PollOf(grab))
    /\ UNCHANGED nonDetVars

(***************************************************************************)
(* PokemonIdentifier: the text normalizer                                  *)
(* A text is a sequence of characters, each a one-character string.        *)
(***************************************************************************)
UpperCase == <<"A", "B", "C", "D", "E", "F", "G", "H", "I", "J", "K", "L", "M",
               "N", "O", "P", "Q", "R", "S", "T", "U", "V", "W", "X", "Y", "Z">>
LowerCase == <<"a", "b", "c", "d", "e", "f", "g", "h", "i", "j", "k", "l", "m",
               "n", "o", "p", "q", "r", "s", "t", "u", "v", "w", "x", "y", "z">>

\* a character the class [A-Za-z] matches
IsAsciiLetter(c) == c \in Range(UpperCase) \cup Range(LowerCase)

\* a character re.sub(r'[^A-Za-z]', '', raw_text) keeps
Kept(c) == IsAsciiLetter(c)

\* str.lower() of one character of the kept text
LowerChar(c) ==
    IF c \in Range(UpperCase)
    THEN LowerCase[CHOOSE i \in DOMAIN UpperCase : UpperCase[i] = c]
    ELSE c

\* clean.lower().strip(): the kept text holds no whitespace for strip() to remove
Lowered(text) == [i \in DOMAIN text |-> LowerChar(text[i])]

\* Optional[str]: None, or a str
Absent == [present |-> FALSE, name |-> <<>>]
Present(name) == [present |-> TRUE, name |-> name]

MinNameLen == 3

AcceptedLongerOnly(clean) == Len(clean) > MinNameLen

\* len(clean) >= 3
Accepted(clean) == Len(clean) >= MinNameLen

\* _clean_pokemon_name(raw_text)
clean_pokemon_name(raw_text) ==
    IF raw_text = <<>>
    THEN Absent
    ELSE LET clean == Lowered(SelectSeq(raw_text, Kept))
         IN  IF Accepted(clean) THEN Present(clean) ELSE Absent

\* characters of the raw texts tried: letters of both cases, a digit, a line
\* break, a blank, a dot and a letter outside A-Z
TextChars == {"A", "b", "5", "\n", " ", "É"}

\* "MANKEY\nLV. 5"
MankeyLvText == <<"M", "A", "N", "K", "E", "Y", "\n", "L", "V", ".", " ", "5">>

\* the raw texts tried: every text of at most MaxTextLen characters of
\* TextChars, and the texts of the examples
RawTexts ==
    UNION {[1..n -> TextChars] : n \in 0..MaxTextLen}
        \cup {MankeyLvText, <<"A", "B">>, <<"M", "A", "N", "K", "E", "Y">>}

TextInit ==
    /\ ocr_text = <<>>
    /\ pokemon_name = Absent
    /\ name_cleaned = FALSE

\* _clean_pokemon_name called with the text at hand
CleanPokemonName ==
    /\ pokemon_name' = clean_pokemon_name(ocr_text)
    /\ name_cleaned' = TRUE
    /\ UNCHANGED ocr_text
    /\ UNCHANGED nonTextVars

(***************************************************************************)
(* SpriteComparator                                                        *)
(* An image is represented by the bits imagehash.phash sets for it, a hash *)
(* by its set of set bits.                                                 *)
(***************************************************************************)
Sprite(bits) == [bits |-> bits]

\* images ImageGrab.grab can deliver for the sprite region
Sprites == {Sprite(1..k) : k \in 0..HashBits}

\* the black image get_screenshot returns when the grab fails: no bit set
FallbackSprite == Sprite({})

\* outcomes of ImageGrab.grab for the sprite region
SpriteGrabOutcomes == [ok : {TRUE}, image : Sprites] \cup {[ok |-> FALSE, image |-> FallbackSprite]}

\* get_screenshot(region_coords) for the sprite region
get_sprite_screenshot(grab) == IF grab.ok THEN grab.image ELSE FallbackSprite

\* imagehash.phash(image)
phash(image) == image.bits

\* base_hash - captured_hash: the number of bits that differ
Difference(base_hash, captured_hash) ==
    Cardinality((base_hash \ captured_hash) \cup (captured_hash \ base_hash))

\* the identifiers asked about
NameAba == <<"a", "b", "a">>
NameAbb == <<"a", "b", "b">>
NameBaa == <<"b", "a", "a">>
NameBab == <<"b", "a", "b">>
NameBbb == <<"b", "b", "b">>
SpriteNames == {NameAba, NameAbb, NameBaa, NameBab, NameBbb}

\* base_path = f"{self.sprite_dir}{pokemon_name}.png"
BasePath(name) == <<"assets/base_sprites/">> \o name \o <<".png">>

\* the files of assets/base_sprites/: two images, a file that is no image
\* (Image.open raises), an image cut short (loading it for phash raises);
\* every other path does not exist
FileStatus(base_path) ==
    CASE base_path = BasePath(NameAba) -> "image"
      [] base_path = BasePath(NameAbb) -> "image"
      [] base_path = BasePath(NameBaa) -> "unreadable"
      [] base_path = BasePath(NameBab) -> "truncated"
      [] OTHER -> "missing"

\* Image.open(base_path) of an image file
BaseSprite(base_path) ==
    IF base_path = BasePath(NameAba) THEN Sprite({}) ELSE Sprite(1..HashBits)

DefaultHashThreshold == 5

\* values config.json can give detection.hash_threshold
Thresholds == {-1, 0, DefaultHashThreshold, HashBits}

SsimCutoff == 95

\* what structural_similarity does: a score (in hundredths), or the import
\* or the computation raises
SsimOutcomes ==
    [kind : {"score"}, score : {SsimCutoff - 1, SsimCutoff, 100}]
        \cup [kind : {"ImportError", "Error"}, score : {0}]

\* the confirmation was not asked for
NoSsim == [kind |-> "none", score |-> 0]

confirm_with_ssim_inclusive(ssim) ==
    IF ssim.kind = "score"
    THEN <<ssim.score <= SsimCutoff, ssim.score>>
    ELSE <<TRUE, 0>>

\* _confirm_with_ssim(base, captured): (is_different, score)
confirm_with_ssim(ssim) ==
    IF ssim.kind = "score"
    THEN <<ssim.score < SsimCutoff, ssim.score>>
    ELSE <<TRUE, 0>>

IsSkinAtThreshold(difference) == difference >= hash_threshold

\* is_skin = difference > self.hash_threshold
IsSkin(difference) == difference > hash_threshold

ConfirmationEnteredAlways(is_skin) == use_ssim_confirmation

\* if is_skin and self.config.get('use_ssim_confirmation', False)
ConfirmationEntered(is_skin) == is_skin /\ use_ssim_confirmation

ZeroVerdict == [is_skin |-> FALSE, difference |-> 0]

\* return (False, -1.0)
InconclusiveVerdict == [is_skin |-> FALSE, difference |-> -1]

StoredNowhere(path, hash_value) == hash_cache

\* self._hash_cache[path] = hash_value
Stored(path, hash_value) ==
    [p \in DOMAIN hash_cache \cup {path} |-> IF p = path THEN hash_value ELSE hash_cache[p]]

\* completed phash computations of the image of path so far
PhashCalls(path) == IF path \in DOMAIN phash_calls THEN phash_calls[path] ELSE 0

\* one more of them
Counted(path) ==
    [p \in DOMAIN phash_calls \cup {path} |-> IF p = path THEN PhashCalls(path) + 1 ELSE phash_calls[p]]

\* what one call did: how the capture went, the hash of the captured image,
\* the phash computations completed (reference, captured), how the
\* confirmation went, and the verdict returned
Cmp(name, capture, captured_hash, base_phash, captured_phash, ssim, verdict) ==
    [name |-> name, capture |-> capture, captured_hash |-> captured_hash,
     base_phash |-> base_phash, captured_phash |-> captured_phash,
     ssim |-> ssim, verdict |-> verdict]

NoCmp == Cmp(<<>>, "none", {}, 0, 0, NoSsim, InconclusiveVerdict)

\* config.json as far as the comparator reads it
Configured ==
    /\ hash_threshold \in Thresholds
    /\ use_ssim_confirmation \in BOOLEAN

\* config.json without detection.hash_threshold and use_ssim_confirmation
DefaultConfigured ==
    /\ hash_threshold = DefaultHashThreshold
    /\ use_ssim_confirmation = FALSE

CmpInit ==
    /\ hash_cache = <<>>
    /\ last_cmp = NoCmp
    /\ phash_calls = <<>>
    /\ cmp_calls = 0

\* is_pokemon_skinned(name), for one outcome of the grab it may ask for and
\* any outcome of the confirmation it may ask for
is_pokemon_skinned(name, grab) ==
    LET base_path == BasePath(name)
        status == FileStatus(base_path)
        captured == get_sprite_screenshot(grab)
        capture == IF grab.ok THEN "ok" ELSE "GrabError"
    IN  /\ cmp_calls' = cmp_calls + 1
        /\ UNCHANGED <<hash_threshold, use_ssim_confirmation>>
        /\ IF status = "missing"
           THEN \* os.path.exists(base_path) is False
                /\ last_cmp' = Cmp(name, "none", {}, 0, 0, NoSsim, InconclusiveVerdict)
                /\ UNCHANGED <<hash_cache, phash_calls>>
           ELSE IF status = "unreadable"
           THEN \* Image.open raises
                /\ last_cmp' = Cmp(name, "none", {}, 0, 0, NoSsim, InconclusiveVerdict)
                /\ UNCHANGED <<hash_cache, phash_calls>>
           ELSE IF ~RegionConfigured("pokemon_sprite")
           THEN \* get_region_by_name raises KeyError
                /\ last_cmp' = Cmp(name, "KeyError", {}, 0, 0, NoSsim, InconclusiveVerdict)
                /\ UNCHANGED <<hash_cache, phash_calls>>
           ELSE IF base_path \notin DOMAIN hash_cache /\ status = "truncated"
           THEN \* imagehash.phash(image) raises in _get_or_compute_hash
                /\ last_cmp' = Cmp(name, capture, {}, 0, 0, NoSsim, InconclusiveVerdict)
                /\ UNCHANGED <<hash_cache, phash_calls>>
           ELSE LET cached == base_path \in DOMAIN hash_cache
                    base_hash == IF cached THEN hash_cache[base_path]
                                 ELSE phash(BaseSprite(base_path))
                    captured_hash == phash(captured)
                    difference == Difference(base_hash, captured_hash)
                    is_skin == IsSkin(difference)
                    confirmed == ConfirmationEntered(is_skin)
                IN  /\ hash_cache' = IF cached THEN hash_cache
                                     ELSE Stored(base_path, base_hash)
                    /\ phash_calls' = IF cached THEN phash_calls ELSE Counted(base_path)
                    /\ IF confirmed
                       THEN \E ssim \in SsimOutcomes :
                               last_cmp' = Cmp(name, capture, captured_hash,
                                               IF cached THEN 0 ELSE 1, 1, ssim,
                                               [is_skin |-> confirm_with_ssim(ssim)[1],
                                                difference |-> difference])
                       ELSE last_cmp' = Cmp(name, capture, captured_hash,
                                            IF cached THEN 0 ELSE 1, 1, NoSsim,
                                            [is_skin |-> is_skin,
                                             difference |-> difference])

IsPokemonSkinned ==
    /\ cmp_calls < MaxCmps
    /\ \E name \in SpriteNames, grab \in SpriteGrabOutcomes :
          is_pokemon_skinned(name, grab)
    /\ UNCHANGED nonCmpVars

(***************************************************************************)
(* BotStatistics, BoundingBoxVisualizer, GameController                    *)
(***************************************************************************)
StatisticsInit == [encounters |-> 0, skins_found |-> 0, fled_battles |-> 0, errors |-> 0]

StatisticsCallbacksFledAsEncounter ==
    [k \in {CallbackKey("FARMING", "IN_BATTLE"), CallbackKey("IN_BATTLE", "PAUSED"),
            CallbackKey("IN_BATTLE", "FARMING")} |->
        CASE k = CallbackKey("FARMING", "IN_BATTLE") -> "increment_encounters"
          [] k = CallbackKey("IN_BATTLE", "PAUSED") -> "increment_skins"
          [] k = CallbackKey("IN_BATTLE", "FARMING") -> "increment_encounters"]

\* the lambdas _register_state_callbacks registers
StatisticsCallbacks ==
    [k \in {CallbackKey("FARMING", "IN_BATTLE"), CallbackKey("IN_BATTLE", "PAUSED"),
            CallbackKey("IN_BATTLE", "FARMING")} |->
        CASE k = CallbackKey("FARMING", "IN_BATTLE") -> "increment_encounters"
          [] k = CallbackKey("IN_BATTLE", "PAUSED") -> "increment_skins"
          [] k = CallbackKey("IN_BATTLE", "FARMING") -> "increment_fled"]

\* the statistics after the callbacks a transition_to call invoked
Incremented(stats, calls) ==
    IF calls = <<>>
    THEN stats
    ELSE CASE calls[1].cb = "increment_encounters" -> [stats EXCEPT !.encounters = @ + 1]
           [] calls[1].cb = "increment_skins" -> [stats EXCEPT !.skins_found = @ + 1]
           [] calls[1].cb = "increment_fled" -> [stats EXCEPT !.fled_battles = @ + 1]
           [] OTHER -> stats

increment_errors_twice(stats) == [stats EXCEPT !.errors = @ + 2]

\* increment_errors()
increment_errors(stats) == [stats EXCEPT !.errors = @ + 1]

flee_battle_skipped(calls) == calls

\* flee_battle(): one more disengage issued
flee_battle(calls) == calls + 1

\* what cv2.imwrite does with the file
WriteOutcomes == {"written", "not written"}

\* save_current_frame(filename) of the snapshot for name: the files there are
\* afterwards
save_current_frame(name, write) ==
    IF current_frame = None
    THEN snapshots
    ELSE IF write = "written" THEN snapshots \cup {name} ELSE snapshots

VizInit ==
    /\ viz_enabled \in BOOLEAN
    /\ viz_running = FALSE
    /\ viz_thread = "none"
    /\ viz_loops = <<>>
    /\ current_frame = None
    /\ snapshots = {}

\* config.json with visualization.enabled true
VizDefaultInit ==
    /\ viz_enabled = TRUE
    /\ viz_running = FALSE
    /\ viz_thread = "none"
    /\ viz_loops = <<>>
    /\ current_frame = None
    /\ snapshots = {}

(***************************************************************************)
(* PokemonFarmBot                                                          *)
(***************************************************************************)
\* max_wait = 10 seconds, in steps of 0.5
MaxWaitHalfSeconds == 20

\* what pytesseract.image_to_string returns in a pass of the battle handler
BattleTexts == {<<"A", "b", "A">>, <<"A", "b", "b", "\n", "5">>, <<"b", "b", "b">>, <<"A", "5">>,
                <<"M", "A", "N", "K", "E", "Y">>}

\* get_pokemon_name: the OCR returns a text, or the capture or the OCR raises
OcrOutcomes == [ok : {TRUE}, text : BattleTexts] \cup {[ok |-> FALSE, text |-> <<>>]}

\* what ImageGrab.grab delivers for the indicator region while the bot runs:
\* a dark frame, a white frame, or an error of the capture device
BattleGrabOutcomes ==
    {grab \in GrabOutcomes : ~grab.ok \/ grab.frame.white \in {0, FramePixels}}

\* what ImageGrab.grab delivers for the sprite region while the bot runs: an
\* image with no bit set, one with every bit set, or an error
BattleSpriteGrabOutcomes ==
    {grab \in SpriteGrabOutcomes : ~grab.ok \/ grab.image.bits \in {{}, 1..HashBits}}

\* get_pokemon_name()
get_pokemon_name(ocr) == IF ocr.ok THEN clean_pokemon_name(ocr.text) ELSE Absent

InStateOrPaused(state) == current_state \in {state, "PAUSED"}

\* self.state_machine.is_state(state) in the dispatch of _main_loop
InState(state) == current_state = state

LoopConditionTrue == TRUE

\* while self.state_machine.current_state != BotState.STOPPED
LoopCondition == current_state # "STOPPED"

WaitGoesOnAlways(elapsed_now) == TRUE

\* elapsed < max_wait
WaitGoesOn(elapsed_now) == elapsed_now < MaxWaitHalfSeconds

StopIgnored == viz_running

\* BoundingBoxVisualizer.stop(): self.running afterwards
StoppedRunning == FALSE

ReadStateResets(state) == "IDLE"

\* get_state_name(): current_state after the visualizer has read it
ReadState(state) == state

\* str.upper() of the value of a state: the name of the state
Upper(value) == CHOOSE state \in BotState : Value(state) = value

\* add_overlay_info: the frame shows the state it read
add_overlay_info(state) == "Estado: " \o Upper(Value(state))

AnomalousAlways(verdict) == TRUE

\* if is_skin
Anomalous(verdict) == verdict.is_skin

BotInit ==
    /\ pc = "constructed"
    /\ elapsed = 0
    /\ wait_reason = None
    /\ statistics = StatisticsInit
    /\ flee_calls = 0

\* start(): the visualizer is started if enabled, then transition_to(FARMING)
Start ==
    /\ pc = "constructed"
    /\ viz_running' = viz_enabled
    /\ viz_thread' = IF viz_enabled THEN "alive" ELSE "none"
    /\ \E timestamp \in Timestamps : transition_to("FARMING", "Bot iniciado pelo usuário", timestamp)
    /\ statistics' = Incremented(statistics, cb_calls')
    /\ pc' = "loop"
    /\ UNCHANGED <<elapsed, wait_reason, flee_calls, viz_enabled, viz_loops,
                   current_frame, snapshots>>
    /\ UNCHANGED <<detVars, textVars, cmpVars>>

\* _handle_farming_state, in a run in which at most max_encounters encounters
\* are followed
handle_farming_state(max_encounters) ==
    /\ \E grab \in BattleGrabOutcomes, timestamp \in Timestamps :
          /\ is_in_battle(grab)
          /\ IF PollOf(grab).ret
             THEN /\ statistics.encounters < max_encounters
                  /\ transition_to("IN_BATTLE", "Batalha iniciada", timestamp)
                  /\ statistics' = Incremented(statistics, cb_calls')
             ELSE \* move_between_tiles()
                  UNCHANGED <<smVars, statistics>>
    /\ UNCHANGED <<poll_log, pc, elapsed, wait_reason, flee_calls>>
    /\ UNCHANGED <<textVars, cmpVars, vizVars>>

\* one pass of _main_loop in FARMING
HandleFarmingState ==
    /\ pc = "loop"
    /\ LoopCondition
    /\ InState("FARMING")
    /\ handle_farming_state(MaxEncounters)

\* flee_battle(), then _wait_battle_end() is entered
FleeAndWait(reason) ==
    /\ flee_calls' = flee_battle(0)
    /\ pc' = "wait"
    /\ elapsed' = 0
    /\ wait_reason' = reason
    /\ UNCHANGED <<smVars, snapshots>>

\* one pass of _main_loop in IN_BATTLE: _handle_battle_state up to its
\* transition_to(PAUSED) or its call of _wait_battle_end
HandleBattleState ==
    /\ pc = "loop"
    /\ LoopCondition
    /\ InState("IN_BATTLE")
    /\ \E ocr \in OcrOutcomes :
          LET name == get_pokemon_name(ocr)
          IN  /\ ocr_text' = ocr.text
              /\ pokemon_name' = name
              /\ name_cleaned' = ocr.ok
              /\ IF ~name.present
                 THEN /\ statistics' = increment_errors(statistics)
                      /\ FleeAndWait("Erro no OCR, retomando farm")
                      /\ UNCHANGED cmpVars
                 ELSE /\ \E grab \in BattleSpriteGrabOutcomes :
                            is_pokemon_skinned(name.name, grab)
                      /\ IF last_cmp'.verdict.difference < 0
                         THEN /\ FleeAndWait("Sprite base ausente")
                              /\ UNCHANGED statistics
                         ELSE IF Anomalous(last_cmp'.verdict)
                         THEN /\ \E write \in WriteOutcomes :
                                    snapshots' = save_current_frame(name.name, write)
                              /\ \E timestamp \in Timestamps :
                                    transition_to("PAUSED", "Skin detectada", timestamp)
                              /\ statistics' = Incremented(statistics, cb_calls')
                              /\ flee_calls' = 0
                              /\ UNCHANGED <<pc, elapsed, wait_reason>>
                         ELSE /\ FleeAndWait("Pokémon padrão, retomando farm")
                              /\ UNCHANGED statistics
    /\ UNCHANGED <<viz_enabled, viz_running, viz_thread, viz_loops, current_frame>>
    /\ UNCHANGED detVars

\* one test of the while condition of _wait_battle_end: the sleep that
\* follows it, or the transition_to(FARMING) that follows the wait
WaitBattleEnd ==
    /\ pc = "wait"
    /\ \E grab \in BattleGrabOutcomes :
          /\ is_in_battle(grab)
          /\ IF PollOf(grab).ret /\ WaitGoesOn(elapsed)
             THEN /\ elapsed' = elapsed + 1
                  /\ UNCHANGED <<smVars, pc, wait_reason, statistics>>
             ELSE /\ \E timestamp \in Timestamps :
                        transition_to("FARMING", wait_reason, timestamp)
                  /\ statistics' = Incremented(statistics, cb_calls')
                  /\ pc' = "loop"
                  /\ elapsed' = 0
                  /\ wait_reason' = None
    /\ UNCHANGED <<poll_log, flee_calls>>
    /\ UNCHANGED <<textVars, cmpVars, vizVars>>

\* one pass of _main_loop in PAUSED: _handle_paused_state prints and sleeps
HandlePausedState ==
    /\ pc = "loop"
    /\ LoopCondition
    /\ InState("PAUSED")
    /\ UNCHANGED vars

\* stop(): the visualizer is told to stop, then transition_to(STOPPED)
stop ==
    /\ viz_running' = StoppedRunning
    /\ \E timestamp \in Timestamps :
          transition_to("STOPPED", "Bot encerrado pelo usuário", timestamp)
    /\ UNCHANGED <<elapsed, wait_reason, flee_calls, viz_enabled, viz_thread, viz_loops,
                   current_frame, snapshots>>
    /\ UNCHANGED <<detVars, textVars, cmpVars>>

\* KeyboardInterrupt while _main_loop runs: stop()
Stop ==
    /\ pc \in {"loop", "wait"}
    /\ stop
    /\ statistics' = Incremented(statistics, cb_calls')
    /\ pc' = "done"

\* an exception leaves a pass of _main_loop: increment_errors(), stop()
UnhandledException ==
    /\ pc = "wait" \/ (pc = "loop" /\ LoopCondition)
    /\ stop
    /\ statistics' = increment_errors(Incremented(statistics, cb_calls'))
    /\ pc' = "done"

\* stop() called from another context while _main_loop runs
ExternalStop ==
    /\ pc \in {"loop", "wait"}
    /\ LoopCondition
    /\ stop
    /\ statistics' = Incremented(statistics, cb_calls')
    /\ UNCHANGED pc

\* the while condition of _main_loop is False: _main_loop returns
LoopExit ==
    /\ pc = "loop"
    /\ ~LoopCondition
    /\ pc' = "done"
    /\ UNCHANGED <<elapsed, wait_reason, statistics, flee_calls>>
    /\ UNCHANGED <<smVars, detVars, textVars, cmpVars, vizVars>>

\* one pass of _visualization_loop that stores its frame
VisualizationLoop ==
    /\ viz_thread = "alive"
    /\ viz_running
    /\ current_state' = ReadState(current_state)
    /\ current_frame' = add_overlay_info(current_state)
    /\ UNCHANGED <<viz_enabled, viz_running, viz_thread, viz_loops, snapshots>>
    /\ UNCHANGED <<previous_state, state_history, transition_callbacks,
                   valid_transitions, last_op, cb_calls, reg_log>>
    /\ UNCHANGED <<detVars, textVars, cmpVars, botVars>>

\* 'q' or ESC in the window: the visualizer stops itself
VisualizationQuit ==
    /\ viz_thread = "alive"
    /\ viz_running
    /\ viz_running' = FALSE
    /\ UNCHANGED <<viz_enabled, viz_thread, viz_loops, current_frame, snapshots>>
    /\ UNCHANGED <<smVars, detVars, textVars, cmpVars, botVars>>

\* the while condition of _visualization_loop is False: the thread ends
VisualizationExit ==
    /\ viz_thread = "alive"
    /\ ~viz_running
    /\ viz_thread' = "exited"
    /\ UNCHANGED <<viz_enabled, viz_running, viz_loops, current_frame, snapshots>>
    /\ UNCHANGED <<smVars, detVars, textVars, cmpVars, botVars>>

\* PokemonFarmBot.__init__ with a config.json that has every key the
\* handlers read
BotConstructed ==
    /\ current_state = "IDLE"
    /\ previous_state = None
    /\ state_history = <<>>
    /\ transition_callbacks = StatisticsCallbacks
    /\ valid_transitions = ValidTransitionsInit
    /\ last_op = Op("register_callback", "FARMING", None, "None")
    /\ cb_calls = <<>>
    /\ reg_log = <<[key |-> CallbackKey("FARMING", "IN_BATTLE"), cb |-> "increment_encounters"],
                   [key |-> CallbackKey("IN_BATTLE", "PAUSED"), cb |-> "increment_skins"],
                   [key |-> CallbackKey("IN_BATTLE", "FARMING"), cb |-> "increment_fled"]>>
    /\ DetInit
    /\ TextInit
    /\ CmpInit
    /\ DefaultConfigured
    /\ BotInit
    /\ VizInit

BotNext ==
    \/ Start
    \/ HandleFarmingState
    \/ HandleBattleState
    \/ WaitBattleEnd
    \/ HandlePausedState
    \/ Stop
    \/ UnhandledException
    \/ VisualizationLoop
    \/ VisualizationQuit
    \/ VisualizationExit

\* the bot run by main(): construction, start(), the loop, a KeyboardInterrupt
\* or an exception that ends it
BotSpec == BotConstructed /\ [][BotNext]_vars

\* the encounters followed when termination is checked
MaxLiveEncounters == 1

HandleFarmingStateLive ==
    /\ pc = "loop"
    /\ LoopCondition
    /\ InState("FARMING")
    /\ handle_farming_state(MaxLiveEncounters)

BotApiNext ==
    \/ Start
    \/ HandleFarmingStateLive
    \/ HandleBattleState
    \/ WaitBattleEnd
    \/ HandlePausedState
    \/ Stop
    \/ UnhandledException
    \/ ExternalStop
    \/ LoopExit
    \/ VisualizationLoop
    \/ VisualizationQuit
    \/ VisualizationExit

\* the bot with stop() also called from outside, and scheduling that lets
\* each thread run: the wait polls on, a loop whose condition is False returns
BotLiveSpec ==
    /\ BotConstructed
    /\ [][BotApiNext]_vars
    /\ WF_<<pc, elapsed>>(WaitBattleEnd)
    /\ WF_pc(LoopExit)
    /\ WF_viz_thread(VisualizationExit)

(***************************************************************************)
(* BoundingBoxVisualizer: start(), stop() and the loop threads             *)
(* A loop thread is at "check" (the while condition), in "body" (a pass up *)
(* to waitKey), in "sleep" (the sleep of the except clause) or "exited".   *)
(***************************************************************************)
\* the threads whose _visualization_loop has not returned
LoopThreads == {i \in DOMAIN viz_loops : viz_loops[i] # "exited"}

\* self.thread and self.thread.is_alive()
ThreadIsAlive == viz_loops # <<>> /\ viz_loops[Len(viz_loops)] # "exited"

\* self.thread after thread i has moved to where
ThreadAfter(i, where) ==
    IF i = Len(viz_loops) /\ where = "exited" THEN "exited" ELSE viz_thread

\* thread i moves to where
Moved(i, where) ==
    /\ viz_loops' = [viz_loops EXCEPT ![i] = where]
    /\ viz_thread' = ThreadAfter(i, where)

\* BoundingBoxVisualizer.start()
VisualizerStart ==
    /\ Len(viz_loops) < MaxVizThreads
    /\ IF viz_enabled /\ ~viz_running
       THEN /\ viz_running' = TRUE
            /\ viz_loops' = Append(viz_loops, "check")
            /\ viz_thread' = "alive"
       ELSE UNCHANGED <<viz_running, viz_loops, viz_thread>>
    /\ UNCHANGED <<viz_enabled, current_frame, snapshots>>
    /\ UNCHANGED <<smVars, detVars, textVars, cmpVars, botVars>>

\* BoundingBoxVisualizer.stop() called by another thread: the join returns
\* when the thread has ended or after two seconds
VisualizerStop ==
    /\ viz_running' = FALSE
    /\ UNCHANGED <<viz_enabled, viz_loops, viz_thread, current_frame, snapshots>>
    /\ UNCHANGED <<smVars, detVars, textVars, cmpVars, botVars>>

\* while self.running, evaluated by thread i
LoopCheck(i) ==
    /\ viz_loops[i] = "check"
    /\ Moved(i, IF viz_running THEN "body" ELSE "exited")
    /\ UNCHANGED <<viz_enabled, viz_running, current_frame, snapshots>>
    /\ UNCHANGED <<smVars, detVars, textVars, cmpVars, botVars>>

\* a pass of thread i in which no closing key is pressed
LoopBody(i) ==
    /\ viz_loops[i] = "body"
    /\ current_frame' = add_overlay_info(current_state)
    /\ Moved(i, "check")
    /\ UNCHANGED <<viz_enabled, viz_running, snapshots>>
    /\ UNCHANGED <<smVars, detVars, textVars, cmpVars, botVars>>

\* a pass of thread i that ends with 'q' or ESC: self.stop(), break. When
\* self.thread is thread i itself the join raises RuntimeError, which the
\* except clause of the loop catches: the break is not reached
LoopClose(i) ==
    /\ viz_loops[i] = "body"
    /\ current_frame' = add_overlay_info(current_state)
    /\ viz_running' = FALSE
    /\ Moved(i, IF viz_running /\ ThreadIsAlive /\ i = Len(viz_loops)
                THEN "sleep"
                ELSE "exited")
    /\ UNCHANGED <<viz_enabled, snapshots>>
    /\ UNCHANGED <<smVars, detVars, textVars, cmpVars, botVars>>

\* time.sleep(1) of the except clause of thread i is over
LoopWake(i) ==
    /\ viz_loops[i] = "sleep"
    /\ Moved(i, "check")
    /\ UNCHANGED <<viz_enabled, viz_running, current_frame, snapshots>>
    /\ UNCHANGED <<smVars, detVars, textVars, cmpVars, botVars>>

LoopChecks == \E i \in DOMAIN viz_loops : LoopCheck(i)
LoopBodies == \E i \in DOMAIN viz_loops : LoopBody(i)
LoopCloses == \E i \in DOMAIN viz_loops : LoopClose(i)
LoopWakes == \E i \in DOMAIN viz_loops : LoopWake(i)

\* a BoundingBoxVisualizer after construction, for either value of
\* visualization.enabled
VisualizerConstructed ==
    /\ SMInit
    /\ DetInit
    /\ TextInit
    /\ CmpInit
    /\ DefaultConfigured
    /\ BotInit
    /\ VizInit

VizNext ==
    \/ VisualizerStart
    \/ VisualizerStop
    \/ LoopChecks
    \/ LoopBodies
    \/ LoopCloses
    \/ LoopWakes

\* a visualizer whose start() and stop() are called in any order while its
\* loop threads run
VizSpec == VisualizerConstructed /\ [][VizNext]_vars

\* the state after construction, for any config.json
AnyConfigInit ==
    /\ SMInit
    /\ DetInit
    /\ TextInit
    /\ CmpInit
    /\ Configured
    /\ BotInit
    /\ VizDefaultInit

\* the state after construction with a config.json that defines every region
Init ==
    /\ SMInit
    /\ DetInit
    /\ TextInit
    /\ CmpInit
    /\ DefaultConfigured
    /\ BotInit
    /\ VizDefaultInit
    /\ RegionConfigured("battle_indicator")
    /\ RegionConfigured("pokemon_sprite")

Next ==
    \/ TransitionTo
    \/ RegisterCallback
    \/ IsState
    \/ CanTransition
    \/ Reset

Spec == Init /\ [][Next]_vars

\* the detector polled on its own (test_battle_detection)
DetSpec == AnyConfigInit /\ [][IsInBattle]_vars

\* a raw text at hand, nothing computed from it yet
RawTextInit ==
    /\ SMInit
    /\ DetInit
    /\ RegionConfigured("battle_indicator")
    /\ RegionConfigured("pokemon_sprite")
    /\ CmpInit
    /\ DefaultConfigured
    /\ BotInit
    /\ VizDefaultInit
    /\ ocr_text \in RawTexts
    /\ pokemon_name = Absent
    /\ name_cleaned = FALSE

\* the comparator called on its own
CmpSpec == AnyConfigInit /\ [][IsPokemonSkinned]_vars

\* the text normalizer called on its own
TextSpec == RawTextInit /\ [][CleanPokemonName]_vars

(***************************************************************************)
(* Properties of the StateMachine (checked under Spec)                     *)
(***************************************************************************)
RECURSIVE ReachableFrom(_, _)
\* the states reachable from S in at most n steps along valid_transitions
ReachableFrom(S, n) ==
    IF n = 0 THEN S
    ELSE ReachableFrom(S \cup {t \in BotState : \E s \in S : t \in Range(TransitionsFrom(s))},
                       n - 1)

\* the step is a transition_to call that returned True
Succeeded == last_op'.op = "transition_to" /\ last_op'.ret = "True"

\* C1: whatever transition_to calls are made on a fresh StateMachine,
\* current_state is one of the six BotState values, reachable from IDLE along
\* edges of valid_transitions, and every call either leaves current_state
\* alone or moves it along one edge of valid_transitions, to its target.
C1_CurrentStateFollowsGraph ==
    /\ [](current_state \in BotState \cap ReachableFrom({"IDLE"}, Cardinality(BotState)))
    /\ [][last_op'.op = "transition_to" =>
            \/ current_state' = current_state /\ last_op'.ret # "True"
            \/ /\ current_state' \in Range(TransitionsFrom(current_state))
               /\ current_state' = last_op'.target
               /\ last_op'.ret = "True"]_vars

C1_Witness ==
    /\ last_op.op = "transition_to" /\ last_op.ret = "True"
    /\ current_state = "CAPTURING"
    /\ Len(state_history) = 3

\* C2: transition_to(target) with target outside the outgoing edges of the
\* current state returns False, leaves current_state, previous_state and
\* state_history as they were and invokes no callback.
C2_InvalidTransitionRejected ==
    [][(last_op'.op = "transition_to"
        /\ last_op'.target \notin Range(TransitionsFrom(current_state)))
       => /\ last_op'.ret = "False"
          /\ current_state' = current_state
          /\ previous_state' = previous_state
          /\ state_history' = state_history
          /\ cb_calls' = <<>>]_vars

\* an invalid IDLE -> PAUSED request after a reset, with a callback registered
\* for that very pair and a history that is not empty
C2_Witness ==
    /\ last_op = Op("transition_to", "PAUSED", "Bot iniciado", "False")
    /\ current_state = "IDLE"
    /\ CallbackKey("IDLE", "PAUSED") \in DOMAIN transition_callbacks
    /\ Len(state_history) > 0

\* C3: a transition_to(target, reason) that returns True sets previous_state
\* to the old state, appends exactly one record (from = old state, to =
\* target, reason), invokes the callback registered for the edge (if any)
\* exactly once, with the record already appended and current_state still the
\* old state, and then makes current_state the target.
C3_SuccessfulTransitionEffects ==
    [][Succeeded =>
        LET target == last_op'.target
            key == CallbackKey(current_state, target)
            n == Len(state_history)
        IN  /\ previous_state' = current_state
            /\ Len(state_history') = n + 1
            /\ SubSeq(state_history', 1, n) = state_history
            /\ state_history'[n + 1].from = Value(current_state)
            /\ state_history'[n + 1].to = Value(target)
            /\ state_history'[n + 1].reason = last_op'.reason
            /\ IF key \in DOMAIN transition_callbacks
               THEN /\ Len(cb_calls') = 1
                    /\ cb_calls'[1].cb = transition_callbacks[key]
                    /\ cb_calls'[1].current = current_state
                    /\ cb_calls'[1].previous = current_state
                    /\ cb_calls'[1].history = state_history'
               ELSE cb_calls' = <<>>
            /\ current_state' = target]_vars

C3_Witness ==
    /\ last_op.op = "transition_to" /\ last_op.ret = "True"
    /\ current_state = "FARMING" /\ previous_state = "IDLE"
    /\ Len(cb_calls) = 1 /\ cb_calls[1].current = "IDLE"
    /\ Len(state_history) = 2

\* C4: STOPPED is terminal: while current_state is STOPPED every transition_to
\* call, for any target, returns False, and no call other than reset() takes
\* the machine out of STOPPED.
C4_StoppedIsTerminal ==
    [][current_state = "STOPPED" =>
        /\ last_op'.op = "transition_to" => last_op'.ret = "False"
        /\ last_op'.op # "reset" => current_state' = "STOPPED"]_vars

C4_Witness ==
    /\ current_state = "STOPPED"
    /\ last_op = Op("transition_to", "FARMING", "Bot iniciado", "False")

\* C5: valid_transitions is, in every reachable state, exactly the graph
\* Idle->{Farming,Stopped}, Farming->{InEncounter,Paused,Stopped},
\* InEncounter->{Farming,Capturing,Paused,Stopped},
\* Capturing->{Farming,Paused,Stopped}, Paused->{Farming,Stopped}, Stopped->{};
\* every state but STOPPED has an outgoing edge; no operation changes it.
C5_GraphIsFixed ==
    /\ DOMAIN valid_transitions = BotState
    /\ Range(valid_transitions["IDLE"]) = {"FARMING", "STOPPED"}
    /\ Range(valid_transitions["FARMING"]) = {"IN_BATTLE", "PAUSED", "STOPPED"}
    /\ Range(valid_transitions["IN_BATTLE"]) = {"FARMING", "CAPTURING", "PAUSED", "STOPPED"}
    /\ Range(valid_transitions["CAPTURING"]) = {"FARMING", "PAUSED", "STOPPED"}
    /\ Range(valid_transitions["PAUSED"]) = {"FARMING", "STOPPED"}
    /\ Range(valid_transitions["STOPPED"]) = {}
    /\ \A s \in BotState \ {"STOPPED"} : Range(valid_transitions[s]) # {}

\* a reset() after transitions and registrations have been made
C5_Witness ==
    /\ last_op.op = "reset"
    /\ Len(state_history) >= 2
    /\ DOMAIN transition_callbacks # {}

\* the step is transition_to(target) made right after can_transition_to(target)
AskedThenTried ==
    /\ last_op.op = "can_transition_to"
    /\ last_op'.op = "transition_to"
    /\ last_op'.target = last_op.target

\* can_transition_to changes no field of the StateMachine
C6_NoSideEffect ==
    last_op'.op = "can_transition_to" =>
        UNCHANGED <<current_state, previous_state, state_history, transition_callbacks>>

RegistrationsOf(key) == {i \in DOMAIN reg_log : reg_log[i].key = key}

\* the callback of the latest register_callback call for a key
LastRegistered(key) ==
    reg_log[CHOOSE i \in RegistrationsOf(key) : \A j \in RegistrationsOf(key) : j <= i].cb

\* C7: register_callback overwrites: a successful transition along an edge
\* invokes the callback of the latest register_callback call for that edge,
\* exactly once, and no callback registered for it earlier (and none at all
\* when none was registered).
C7_RegisterOverwrites ==
    [][Succeeded =>
        LET key == CallbackKey(current_state, last_op'.target)
        IN  IF RegistrationsOf(key) = {}
            THEN cb_calls' = <<>>
            ELSE /\ Len(cb_calls') = 1
                 /\ cb_calls'[1].cb = LastRegistered(key)]_vars

\* cbA, then cbB registered for IDLE -> FARMING, and the transition made
C7_Witness ==
    /\ reg_log = << [key |-> CallbackKey("IDLE", "FARMING"), cb |-> "cbA"],
                    [key |-> CallbackKey("IDLE", "FARMING"), cb |-> "cbB"] >>
    /\ last_op.op = "transition_to" /\ last_op.ret = "True"
    /\ previous_state = "IDLE" /\ current_state = "FARMING"
    /\ Len(cb_calls) = 1 /\ cb_calls[1].cb = "cbB"

(***************************************************************************)
(* Properties of the BattleDetector (checked under DetSpec)                *)
(***************************************************************************)
\* poll i worked on a frame that it classified as a battle frame
RawPositive(i) == poll_log[i].capture # "KeyError" /\ poll_log[i].is_battle

\* poll i worked on a frame that it classified as no battle frame
RawNegative(i) == poll_log[i].capture # "KeyError" /\ ~poll_log[i].is_battle

\* C8: a poll returns True exactly when it and the polls before it make up
\* required_consecutive_frames (3) consecutive raw-positive frames; so a
\* shorter run followed by a raw-negative frame yields no True, and the first
\* True comes with the poll that completes three raw-positives in a row.
C8_Debounce ==
    \A i \in DOMAIN poll_log :
        poll_log[i].ret <=>
            /\ i >= required_consecutive_frames
            /\ \A j \in (i - required_consecutive_frames + 1)..i : RawPositive(j)

\* two raw-positives, a raw-negative, then three raw-positives: the first
\* True is the sixth poll
C8_Witness ==
    /\ Len(poll_log) = 6
    /\ RawPositive(1) /\ RawPositive(2) /\ RawNegative(3)
    /\ RawPositive(4) /\ RawPositive(5) /\ RawPositive(6)
    /\ \A i \in 1..5 : ~poll_log[i].ret
    /\ poll_log[6].ret

\* C9: once a poll has returned True, every next poll on a raw-positive frame
\* returns True; battle_detected_frames is a natural number that a poll
\* changes only by adding one (raw-positive frame) or by setting it to zero
\* (raw-negative frame): it never wraps while positives continue.
C9_CounterGrowsOrResets ==
    /\ [](battle_detected_frames \in Nat)
    /\ [][LET n == Len(poll_log')
              poll == poll_log'[n]
              positive == poll.capture # "KeyError" /\ poll.is_battle
              negative == poll.capture # "KeyError" /\ ~poll.is_battle
          IN  /\ positive => battle_detected_frames' = battle_detected_frames + 1
              /\ negative => battle_detected_frames' = 0
              /\ \/ battle_detected_frames' = battle_detected_frames
                 \/ positive
                 \/ negative
              /\ (n > 1 /\ poll_log[n - 1].ret /\ positive) => poll.ret]_vars

\* five raw-positive polls in a row: True on the third, fourth and fifth
C9_Witness ==
    /\ Len(poll_log) >= 5
    /\ battle_detected_frames = 5
    /\ poll_log[3].ret /\ poll_log[4].ret /\ poll_log[5].ret

\* C10: a poll whose capture of the indicator region failed (the region is
\* not configured, or the capture device erred) returns False and leaves
\* battle_detected_frames as it was.
C10_CaptureFailureKeepsCounter ==
    [][LET n == Len(poll_log')
       IN  poll_log'[n].capture # "ok" =>
              /\ ~poll_log'[n].ret
              /\ battle_detected_frames' = battle_detected_frames]_vars

(***************************************************************************)
(* Properties of the text normalizer (checked under TextSpec)              *)
(***************************************************************************)
\* C11: _clean_pokemon_name("MANKEY\nLV. 5") is "mankey".
C11_MankeyExample ==
    name_cleaned /\ ocr_text = MankeyLvText
        => pokemon_name = Present(<<"m", "a", "n", "k", "e", "y">>)

\* the positions of raw_text that hold a letter of A-Z or a-z
LetterPositions(raw_text) ==
    {i \in DOMAIN raw_text : \E k \in 1..26 : raw_text[i] \in {UpperCase[k], LowerCase[k]}}

\* the k-th of them
LetterPosition(raw_text, k) ==
    CHOOSE p \in LetterPositions(raw_text) :
        Cardinality({q \in LetterPositions(raw_text) : q <= p}) = k

\* lower is the lowercase letter of the letter c
IsLowerOf(lower, c) == \E k \in 1..26 : lower = LowerCase[k] /\ c \in {UpperCase[k], LowerCase[k]}

NormalizerResult(raw_text, result) ==
    LET letters == LetterPositions(raw_text)
        name == result.name
    IN  /\ result.present <=> Cardinality(letters) >= 3
        /\ ~result.present => result = Absent
        /\ result.present =>
              /\ Len(name) >= 3
              /\ Len(name) = Cardinality(letters)
              /\ \A k \in DOMAIN name :
                    /\ name[k] \in Range(LowerCase)
                    /\ IsLowerOf(name[k], raw_text[LetterPosition(raw_text, k)])

ReachedComparison == last_cmp.captured_phash = 1

\* the number of bit positions in which two hashes differ
Hamming(a, b) == Cardinality({bit \in 1..HashBits : (bit \in a) # (bit \in b)})

\* the hash of the reference image of the last call
LastReferenceHash == BaseSprite(BasePath(last_cmp.name)).bits

\* C13: for an identifier without reference file the call returns
\* (False, -1.0), captures nothing and computes no hash; the verdict is not
\* the (False, 0.0) of a zero-difference match.
C13_NoReferenceFile ==
    [][IsPokemonSkinned /\ FileStatus(BasePath(last_cmp'.name)) = "missing"
          => /\ last_cmp'.verdict = [is_skin |-> FALSE, difference |-> -1]
             /\ last_cmp'.verdict # [is_skin |-> FALSE, difference |-> 0]
             /\ last_cmp'.capture = "none"
             /\ last_cmp'.base_phash = 0
             /\ last_cmp'.captured_phash = 0
             /\ UNCHANGED <<hash_cache, phash_calls>>]_vars

\* a call without reference file after a call that compared hashes
C13_Witness ==
    /\ last_cmp.name = NameBbb
    /\ cmp_calls >= 2
    /\ DOMAIN hash_cache # {}
    /\ last_cmp.verdict.difference = -1

\* C14: the difference of every verdict is -1.0 or non-negative, is_skin is
\* never True with a negative difference, and a call in which the capture,
\* the image load or the hashing raised returns (False, -1.0).
C14_ExceptionsAreInconclusive ==
    /\ last_cmp.verdict.difference = -1 \/ last_cmp.verdict.difference >= 0
    /\ ~(last_cmp.verdict.is_skin /\ last_cmp.verdict.difference < 0)
    /\ \/ last_cmp.capture \in {"KeyError", "GrabError"}
       \/ FileStatus(BasePath(last_cmp.name)) \in {"unreadable", "truncated"}
       => last_cmp.verdict = [is_skin |-> FALSE, difference |-> -1]

\* C15: when the hash of the captured image equals the reference hash, the
\* difference is 0, and is_skin is False for every hash_threshold >= 0.
C15_EqualHashes ==
    ReachedComparison /\ last_cmp.captured_hash = LastReferenceHash
        => /\ last_cmp.verdict.difference = 0
           /\ hash_threshold >= 0 => ~last_cmp.verdict.is_skin

\* a capture equal to a reference of which every bit is set, threshold 0
C15_Witness ==
    /\ ReachedComparison
    /\ last_cmp.name = NameAbb
    /\ last_cmp.captured_hash = LastReferenceHash
    /\ hash_threshold = 0
    /\ last_cmp.verdict = [is_skin |-> FALSE, difference |-> 0]

\* C16: with use_ssim_confirmation off, is_skin is True exactly when the
\* Hamming difference is greater than hash_threshold; with it on or off,
\* is_skin = True implies difference > hash_threshold.
C16_ThresholdDecides ==
    ReachedComparison
        => /\ last_cmp.verdict.difference = Hamming(LastReferenceHash, last_cmp.captured_hash)
           /\ ~use_ssim_confirmation
                 => (last_cmp.verdict.is_skin <=> last_cmp.verdict.difference > hash_threshold)
           /\ last_cmp.verdict.is_skin => last_cmp.verdict.difference > hash_threshold

\* confirmation off and a difference equal to the default threshold
C16_Witness ==
    /\ ReachedComparison
    /\ ~use_ssim_confirmation
    /\ hash_threshold = DefaultHashThreshold
    /\ last_cmp.verdict = [is_skin |-> FALSE, difference |-> DefaultHashThreshold]

\* C17: over any sequence of calls the hash of a reference path is computed
\* at most once (a call that finds it cached computes none), and every call
\* that reaches the comparison computes the hash of its captured image.
C17_ReferenceHashedOnce ==
    /\ [](/\ \A path \in DOMAIN phash_calls : phash_calls[path] <= 1
          /\ DOMAIN hash_cache = DOMAIN phash_calls
          /\ last_cmp.verdict.difference >= 0 => last_cmp.captured_phash = 1)
    /\ [][IsPokemonSkinned /\ BasePath(last_cmp'.name) \in DOMAIN hash_cache
             => phash_calls' = phash_calls /\ last_cmp'.base_phash = 0]_vars

\* a second comparison against the same reference, served from the cache
C17_Witness ==
    /\ cmp_calls >= 2
    /\ ReachedComparison
    /\ last_cmp.base_phash = 0
    /\ PhashCalls(BasePath(last_cmp.name)) = 1

(***************************************************************************)
(* Properties of the orchestration loop (checked under BotSpec)            *)
(***************************************************************************)
\* a step of the loop that takes the state machine from IN_BATTLE to state
LeavesBattleFor(state) == current_state = "IN_BATTLE" /\ current_state' = state

\* C18: the loop goes from IN_BATTLE to PAUSED only in a pass in which
\* get_pokemon_name returned a name and is_pokemon_skinned returned
\* is_skin = True with a non-negative difference; a pass with no name or with
\* a negative difference disengages and waits, and the transition that
\* follows the wait is to FARMING (STOPPED if the bot is stopped meanwhile).
C18_PausedOnlyOnAnomaly ==
    [][/\ LeavesBattleFor("PAUSED")
             => /\ pokemon_name'.present
                /\ cmp_calls' = cmp_calls + 1
                /\ last_cmp'.name = pokemon_name'.name
                /\ last_cmp'.verdict.is_skin
                /\ last_cmp'.verdict.difference >= 0
       /\ HandleBattleState /\ (~pokemon_name'.present \/ last_cmp'.verdict.difference < 0)
             => /\ current_state' = "IN_BATTLE"
                /\ pc' = "wait"
       /\ pc = "wait" /\ current_state' # current_state
             => current_state' \in {"FARMING", "STOPPED"}
       /\ WaitBattleEnd /\ pc' = "loop"
             => current_state' = "FARMING"]_vars

\* the loop paused on an anomaly after a battle it fled from
C18_Witness ==
    /\ current_state = "PAUSED"
    /\ previous_state = "IN_BATTLE"
    /\ statistics.fled_battles = 1
    /\ pokemon_name.present
    /\ last_cmp.verdict.is_skin

\* C19: every IN_BATTLE -> FARMING transition of the loop comes after exactly
\* one flee_battle call of the same pass of the battle handler; a pass that
\* transitions to PAUSED calls flee_battle not at all.
C19_FleeBeforeFarming ==
    [][/\ LeavesBattleFor("FARMING")
             => /\ pc = "wait"
                /\ flee_calls = 1
                /\ flee_calls' = 1
       /\ LeavesBattleFor("PAUSED") => flee_calls' = 0]_vars

\* back in FARMING after a battle the loop fled from
C19_Witness ==
    /\ current_state = "FARMING"
    /\ previous_state = "IN_BATTLE"
    /\ flee_calls = 1
    /\ statistics.fled_battles = 1

\* C20: every transition to PAUSED the loop makes on an anomalous verdict
\* leaves a snapshot file for the identifier on disk.
C20_SnapshotPersisted ==
    [][LeavesBattleFor("PAUSED") => pokemon_name'.name \in snapshots']_vars

(***************************************************************************)
(* The run of one encounter, start to return (checked under BotSpec)       *)
(***************************************************************************)
Mankey == <<"m", "a", "n", "k", "e", "y">>

\* the loop is back in FARMING after its first encounter, in which the name
\* read was "mankey" and nothing went wrong
MankeyEncounterOver ==
    /\ pc = "loop"
    /\ current_state = "FARMING"
    /\ previous_state = "IN_BATTLE"
    /\ statistics.encounters = 1
    /\ statistics.errors = 0
    /\ pokemon_name = Present(Mankey)

\* the from and to of the records of state_history, in order
Chain == [i \in DOMAIN state_history |-> <<state_history[i].from, state_history[i].to>>]

\* C21: in a run that starts in IDLE, start() takes the machine to FARMING;
\* the first transition to IN_BATTLE is made by the poll that brings the
\* detector counter to three, and succeeds; when the extractor returned
\* "mankey", for which there is no reference image, the classifier returned
\* (False, -1), the loop disengaged once, the transition back to FARMING
\* succeeded, and state_history holds exactly the three records idle->farming,
\* farming->in_battle, in_battle->farming.
C21_EndToEnd ==
    /\ [](MankeyEncounterOver
            => /\ last_cmp.name = Mankey
               /\ last_cmp.verdict = [is_skin |-> FALSE, difference |-> -1]
               /\ flee_calls = 1
               /\ last_op.op = "transition_to"
               /\ last_op.ret = "True"
               /\ Chain = << <<"idle", "farming">>, <<"farming", "in_battle">>,
                             <<"in_battle", "farming">> >>)
    /\ [][/\ pc = "constructed" /\ pc' = "loop"
                => /\ current_state = "IDLE"
                   /\ current_state' = "FARMING"
                   /\ last_op'.ret = "True"
          /\ pc = "loop" /\ current_state = "FARMING" /\ statistics.encounters = 0
                => /\ current_state' = "IN_BATTLE"
                        <=> battle_detected_frames' = required_consecutive_frames
                   /\ current_state' = "IN_BATTLE" => last_op'.ret = "True"]_vars

\* the mankey encounter is over and the loop farms again
C21_Witness ==
    /\ MankeyEncounterOver
    /\ Len(state_history) = 3
    /\ last_cmp.name = Mankey
    /\ cmp_calls = 1

\* C22: when an exception leaves a pass of the loop, the except clause of
\* start() adds exactly 1 to statistics.errors and leaves the other counters
\* alone, and stop() transitions to STOPPED: from every state other than
\* STOPPED the transition succeeds, and a run that has ended has
\* current_state = STOPPED.
C22_ExceptionStops ==
    /\ [](pc = "done" => current_state = "STOPPED")
    /\ [][UnhandledException
            => /\ statistics' = [statistics EXCEPT !.errors = @ + 1]
               /\ current_state # "STOPPED"
               /\ current_state' = "STOPPED"
               /\ previous_state' = current_state
               /\ last_op' = Op("transition_to", "STOPPED",
                                "Bot encerrado pelo usuário", "True")
               /\ pc' = "done"]_vars

\* a run ended by an exception in its first battle, after the name was read
\* and the sprite compared: the error counted is the exception
C22_Witness ==
    /\ pc = "done"
    /\ current_state = "STOPPED"
    /\ previous_state = "IN_BATTLE"
    /\ statistics = [encounters |-> 1, skins_found |-> 0, fled_battles |-> 0, errors |-> 1]
    /\ pokemon_name.present
    /\ cmp_calls = 1

(***************************************************************************)
(* Termination (checked under BotLiveSpec)                                 *)
(***************************************************************************)
\* what the passes of the loop act on: the state machine's state and history,
\* the counters, the detector's counter (every poll of a bright frame changes
\* it), the extractor, the classifier, the disengages
LoopEffects ==
    <<current_state, previous_state, state_history, statistics, flee_calls,
      elapsed, wait_reason, battle_detected_frames, textVars, cmpVars>>

\* C23: when current_state is STOPPED at the check of the loop condition the
\* loop returns: from then on no step polls the detector, calls the extractor
\* or the classifier, disengages, or changes the state or its history, and
\* under fair scheduling the loop has returned some time after the state
\* became STOPPED.
C23_LoopTerminates ==
    /\ [][(pc = "loop" /\ current_state = "STOPPED") \/ pc = "done"
            => /\ UNCHANGED LoopEffects
               /\ pc' \in {pc, "done"}]_vars
    /\ [](pc = "done" => current_state = "STOPPED")
    /\ (current_state = "STOPPED") ~> (pc = "done")

\* the loop has returned after stop() was called while it waited for the end
\* of a battle: the transition to FARMING it asked for then was refused
C23_Witness ==
    /\ pc = "done"
    /\ current_state = "STOPPED"
    /\ last_op = Op("transition_to", "FARMING", "Pokémon padrão, retomando farm", "False")

(***************************************************************************)
(* The paused loop and the visualizer thread (checked under BotSpec)       *)
(***************************************************************************)
\* C24: while current_state is PAUSED the loop is at its dispatch, and no
\* step polls the detector, calls the extractor or the classifier, disengages
\* or waits; a step either leaves current_state, previous_state,
\* state_history and statistics as they are, or it is stop(), called outside
\* the state handlers, which takes the machine to STOPPED and ends the run.
C24_PausedIsIdle ==
    /\ [](current_state = "PAUSED" => pc = "loop")
    /\ [][current_state = "PAUSED"
            => /\ UNCHANGED <<battle_detected_frames, textVars, cmpVars,
                              flee_calls, elapsed, wait_reason>>
               /\ \/ UNCHANGED <<current_state, previous_state, state_history,
                                 statistics, pc>>
                  \/ /\ current_state' = "STOPPED"
                     /\ pc' = "done"
                     /\ last_op'.reason = "Bot encerrado pelo usuário"]_vars

\* the loop is paused on a skin and the visualizer has drawn the paused state
C24_Witness ==
    /\ current_state = "PAUSED"
    /\ pc = "loop"
    /\ statistics.skins_found = 1
    /\ current_frame = "Estado: PAUSED"

\* a step of the visualizer thread: it stores a frame, stops itself or ends
VisualizerStep ==
    /\ viz_thread = "alive"
    /\ \/ current_frame' # current_frame
       \/ viz_thread' = "exited"
       \/ viz_running' # viz_running /\ pc' = pc

\* C25: the visualizer thread reads the state machine and no more: a step of
\* it leaves current_state, previous_state, state_history,
\* transition_callbacks and every counter of statistics unchanged; every step
\* that changes the state or the history is a transition_to of the thread
\* that runs start(), the loop and stop().
C25_VisualizerOnlyReads ==
    [][/\ VisualizerStep \/ VisualizationLoop
             => UNCHANGED <<current_state, previous_state, state_history,
                            transition_callbacks, statistics>>
       /\ current_state' # current_state \/ state_history' # state_history
             => /\ ~VisualizerStep
                /\ pc # "done"
                /\ last_op'.op = "transition_to"]_vars

\* the visualizer has drawn the state of a battle the loop has entered
C25_Witness ==
    /\ viz_thread = "alive"
    /\ current_frame = "Estado: IN_BATTLE"
    /\ current_state = "IN_BATTLE"
    /\ statistics.encounters = 1

(***************************************************************************)
(* The end of the visualizer thread and of the wait (under BotLiveSpec)    *)
(***************************************************************************)
\* PokemonFarmBot.stop() has run: it is the only caller of
\* transition_to(STOPPED)
StopHasRun == last_op.op = "transition_to" /\ last_op.target = "STOPPED"

\* C26: once PokemonFarmBot.stop() has run, visualizer.running is False and
\* stays False, and under fair scheduling the visualizer thread, if one was
\* started, is no longer alive some time later.
C26_VisualizerStops ==
    /\ [](current_state = "STOPPED" => ~viz_running)
    /\ [](StopHasRun => ~viz_running)
    /\ [](StopHasRun => current_state = "STOPPED")
    /\ (current_state = "STOPPED") ~> (viz_thread # "alive")

\* the bot was stopped while its visualizer ran, and the thread has ended
C26_Witness ==
    /\ StopHasRun
    /\ current_state = "STOPPED"
    /\ viz_enabled
    /\ ~viz_running
    /\ viz_thread = "exited"
    /\ current_frame # None

\* C27: _wait_battle_end sleeps at most MaxWaitHalfSeconds = 20 times, half a
\* second each: elapsed never passes the limit, a wait that has reached it is
\* left by the next evaluation of the loop condition whatever the detector
\* reports, and under fair scheduling every wait is left.
C27_WaitTerminates ==
    /\ [](elapsed <= MaxWaitHalfSeconds)
    /\ [][pc = "wait" /\ elapsed = MaxWaitHalfSeconds => pc' # "wait"]_<<pc, elapsed, battle_detected_frames>>
    /\ [][pc = "wait" /\ pc' = "wait" => elapsed' \in {elapsed, elapsed + 1}]_vars
    /\ (pc = "wait") ~> (pc # "wait")

\* the wait has slept twenty times with the battle still detected
C27_Witness ==
    /\ pc = "wait"
    /\ elapsed = MaxWaitHalfSeconds
    /\ battle_detected_frames >= required_consecutive_frames + MaxWaitHalfSeconds

(***************************************************************************)
(* The brightness rule (checked under DetSpec)                             *)
(***************************************************************************)
\* the last poll worked on a frame, which indicator_img holds
LastPollSawFrame ==
    /\ poll_log # <<>>
    /\ poll_log[Len(poll_log)].capture # "KeyError"

\* C28: a frame is raw-positive exactly when more than a fifth of its pixels
\* are bright: five times the bright pixels exceed the pixels. A frame of
\* which exactly a fifth is bright is raw-negative, and the poll that saw it
\* left the counter at zero and returned False.
C28_StrictlyMoreThanAFifth ==
    LastPollSawFrame =>
        LET poll == poll_log[Len(poll_log)]
        IN  /\ poll.is_battle <=> 5 * indicator_img.white > indicator_img.total
            /\ 5 * indicator_img.white = indicator_img.total
                  => /\ ~poll.is_battle
                     /\ battle_detected_frames = 0
                     /\ ~poll.ret

\* two raw-positive polls, then a frame of which exactly a fifth is bright
C28_Witness ==
    /\ Len(poll_log) = 3
    /\ poll_log[1].is_battle
    /\ poll_log[2].is_battle
    /\ indicator_img.white > 0
    /\ 5 * indicator_img.white = indicator_img.total
    /\ battle_detected_frames = 0

(***************************************************************************)
(* The second pass of the comparator (checked under CmpSpec)               *)
(***************************************************************************)
\* the last call asked _confirm_with_ssim
SsimEntered == last_cmp.ssim.kind # "none"

\* C29: _confirm_with_ssim is entered exactly when the hash difference is
\* greater than hash_threshold and use_ssim_confirmation is on; when it
\* returns a score, is_skin is True for a score below 0.95 and False for a
\* score of 0.95 or more; when it fails, is_skin stays True; in every case
\* the difference returned is the Hamming difference of the two hashes.
C29_SsimSecondPass ==
    /\ SsimEntered => ReachedComparison
    /\ ReachedComparison
          => LET hamming == Hamming(LastReferenceHash, last_cmp.captured_hash)
             IN  /\ SsimEntered <=> (hamming > hash_threshold /\ use_ssim_confirmation)
                 /\ last_cmp.ssim.kind = "score"
                       => (last_cmp.verdict.is_skin <=> last_cmp.ssim.score < SsimCutoff)
                 /\ last_cmp.ssim.kind \in {"ImportError", "Error"}
                       => last_cmp.verdict.is_skin
                 /\ last_cmp.verdict.difference = hamming

\* a difference above the threshold, downgraded by a score of exactly 0.95
C29_Witness ==
    /\ ReachedComparison
    /\ use_ssim_confirmation
    /\ last_cmp.ssim = [kind |-> "score", score |-> SsimCutoff]
    /\ last_cmp.verdict.difference > hash_threshold
    /\ ~last_cmp.verdict.is_skin

(***************************************************************************)
(* The history as a chain (checked under Spec)                             *)
(***************************************************************************)
\* C30: after any sequence of transition_to, register_callback,
\* can_transition_to, is_state and reset calls state_history is a chain: the
\* first record leaves idle, every record leaves the state the record before
\* it entered, and the last record entered current_state.
C30_HistoryIsChain ==
    /\ state_history # <<>> => state_history[1].from = "idle"
    /\ \A i \in 1..(Len(state_history) - 1) :
          state_history[i].to = state_history[i + 1].from
    /\ state_history # <<>>
          => state_history[Len(state_history)].to = Value(current_state)

(***************************************************************************)
(* A callback that raises (checked under Spec)                             *)
(***************************************************************************)
\* C31: a transition_to call whose callback raised leaves current_state,
\* previous_state and state_history exactly as they were before the call.
C31_AllOrNothing ==
    [][last_op'.op = "transition_to" /\ last_op'.ret = "Raised"
          => UNCHANGED <<current_state, previous_state, state_history>>]_vars

(***************************************************************************)
(* The keys of the callbacks (checked under Spec)                          *)
(***************************************************************************)
\* the key of every (from, to) pair of states
KeyOf == [e \in BotState \X BotState |-> CallbackKey(e[1], e[2])]

\* the (from, to) pairs of states whose key is key
EdgesOf(key) == {e \in BotState \X BotState : KeyOf[e] = key}

\* no two pairs have the same key
KeysDiffer == \A e1, e2 \in BotState \X BotState : KeyOf[e1] = KeyOf[e2] => e1 = e2

\* C32: two different (from, to) pairs of the six states never have the same
\* key, and a transition_to call invokes only a callback that was registered
\* for the very pair it goes along: the pair of the state it leaves and its
\* target.
C32_KeysAreCollisionFree ==
    /\ []KeysDiffer
    /\ [][last_op'.op = "transition_to" /\ cb_calls' # <<>>
             => \E i \in DOMAIN reg_log :
                   /\ reg_log[i].cb = cb_calls'[1].cb
                   /\ EdgesOf(reg_log[i].key) = {<<current_state, last_op'.target>>}]_vars

\* callbacks registered for IDLE -> PAUSED and IDLE -> FARMING, and the
\* transition IDLE -> FARMING made: only the callback of that edge ran
C32_Witness ==
    /\ reg_log = << [key |-> CallbackKey("IDLE", "PAUSED"), cb |-> "cbA"],
                    [key |-> CallbackKey("IDLE", "FARMING"), cb |-> "cbB"] >>
    /\ last_op.op = "transition_to" /\ last_op.ret = "True"
    /\ previous_state = "IDLE" /\ current_state = "FARMING"
    /\ Len(cb_calls) = 1 /\ cb_calls[1].cb = "cbB"

(***************************************************************************)
(* The counters of a run (checked under BotSpec)                           *)
(***************************************************************************)
\* the records of state_history that enter IN_BATTLE
Entries == {i \in DOMAIN state_history : state_history[i].to = "in_battle"}

\* 1 when the encounter entered last has not been left by a transition
\* IN_BATTLE -> FARMING or IN_BATTLE -> PAUSED, 0 otherwise
OpenEncounters ==
    IF /\ Entries # {}
       /\ LET last == CHOOSE i \in Entries : \A j \in Entries : j <= i
          IN  \A j \in (last + 1)..Len(state_history) :
                 ~ /\ state_history[j].from = "in_battle"
                   /\ state_history[j].to \in {"farming", "paused"}
    THEN 1
    ELSE 0

C34_EncounterCountedOnce ==
    [][/\ LeavesBattleFor("FARMING") => battle_detected_frames' = 0
       /\ battle_detected_frames' \in {battle_detected_frames, battle_detected_frames + 1, 0}
       /\ current_state = "FARMING" /\ current_state' = "IN_BATTLE"
             => battle_detected_frames' = required_consecutive_frames]_vars

(***************************************************************************)
(* The states the loop goes through (checked under BotSpec)                *)
(***************************************************************************)
\* a pass of the loop that started in IN_BATTLE comes to its end: the battle
\* handler returns, at once or after its wait
BattlePassEnds ==
    /\ current_state = "IN_BATTLE"
    /\ pc' = "loop"
    /\ pc = "wait" \/ cmp_calls' # cmp_calls

\* C35: a pass of the loop that starts in IN_BATTLE and ends without an
\* exception ends with current_state FARMING or PAUSED, and no step of the
\* loop leaves it at its dispatch in IN_BATTLE: the handler of IN_BATTLE
\* either waits or has left IN_BATTLE, so no two passes in a row start in
\* IN_BATTLE.
C35_BattleIsTransient ==
    /\ [](pc = "wait" => current_state = "IN_BATTLE")
    /\ [][/\ BattlePassEnds => /\ current_state' \in {"FARMING", "PAUSED"}
                               /\ last_op'.ret = "True"
          /\ (pc = "loop" /\ current_state = "IN_BATTLE"
                 /\ pc' = "loop" /\ current_state' = "IN_BATTLE")
                => UNCHANGED LoopEffects]_vars

\* two battles: one fled from, the next paused on
C35_Witness ==
    /\ pc = "loop"
    /\ current_state = "PAUSED"
    /\ previous_state = "IN_BATTLE"
    /\ statistics = [encounters |-> 2, skins_found |-> 1, fled_battles |-> 1, errors |-> 0]

(***************************************************************************)
(* The transitions the loop asks for (checked under BotLiveSpec)           *)
(***************************************************************************)
\* C36: under start(), the three handlers and stop(), current_state is never
\* CAPTURING and is IDLE only before start(); every transition_to call made
\* while current_state is not STOPPED returns True: a call returns False
\* only once the state machine is STOPPED, and none raises.
C36_LoopTransitionsAreValid ==
    /\ [](current_state # "CAPTURING")
    /\ [](current_state = "IDLE" <=> pc = "constructed")
    /\ [][current_state' = "IDLE" => current_state = "IDLE"]_vars
    /\ [](last_op.op = "transition_to" /\ last_op.ret # "True"
             => last_op.ret = "False" /\ current_state = "STOPPED")
    /\ [][current_state # "STOPPED" /\ last_op' # last_op
             => last_op'.op = "transition_to" /\ last_op'.ret = "True"]_vars

\* a run through IDLE, FARMING, IN_BATTLE and PAUSED, stopped while paused
C36_Witness ==
    /\ pc = "done"
    /\ current_state = "STOPPED"
    /\ previous_state = "PAUSED"
    /\ Len(state_history) = 4
    /\ last_op.ret = "True"

(***************************************************************************)
(* reset() (checked under Spec)                                            *)
(***************************************************************************)
\* C37: a reset() call, from whatever state, STOPPED included, leaves
\* current_state = IDLE and previous_state = None; it appends no record,
\* invokes no callback and leaves state_history, transition_callbacks and
\* valid_transitions as they were.
C37_ResetFrame ==
    /\ [](last_op.op = "reset"
             => /\ current_state = "IDLE"
                /\ previous_state = None
                /\ cb_calls = <<>>)
    /\ [][last_op'.op = "reset"
             => UNCHANGED <<state_history, transition_callbacks, valid_transitions>>]_vars

\* reset() called on a stopped machine that had a callback registered
C37_Witness ==
    /\ last_op.op = "reset"
    /\ current_state = "IDLE"
    /\ previous_state = None
    /\ state_history # <<>>
    /\ state_history[Len(state_history)].to = "stopped"
    /\ DOMAIN transition_callbacks # {}

(***************************************************************************)
(* The loop threads of the visualizer (checked under VizSpec)              *)
(***************************************************************************)
\* C38: whatever the order of the start() and stop() calls, stop() from
\* inside the loop on the closing key and start() after a stop() whose join
\* did not see the thread end included, at most one _visualization_loop
\* thread has not returned.
C38_AtMostOneLoopThread == Cardinality(LoopThreads) <= 1

====
